---- MODULE Spec2Model ----
(***************************************************************************)
(* User bans of NodeBB (src/user/bans): ban, unban, isBanned,              *)
(* canLoginIfBanned, unbanIfExpired, calcExpiredFromUserData,              *)
(* filterBanned and getReason, over the store, the groups service, the     *)
(* privilege service and the emailer.                                      *)
(*                                                                         *)
(* Spec      runs every call to completion before the next one starts.     *)
(* SpecConc  runs ban and unban calls as tasks that interleave at each     *)
(*           await, and lets every collaborator call throw.                *)
(* SpecReason runs a second ban and a getReason call as tasks, after a     *)
(*           first ban has completed.                                      *)
(***************************************************************************)
EXTENDS Integers, Sequences, FiniteSets, TLC

\* ------------------------------------------------------------------ bounds
NumUsers == 2
MaxTime == 2
MaxTasks == 2
MaxRecords == 2
MaxLen == 2
MaxReaders == 1

Uids == 1..NumUsers

\* ------------------------------------------------------- JavaScript values
\* A value of the "until" argument: undefined, a number or a string (a
\* sequence of characters).
Undefined == [t |-> "undefined", n |-> 0, s |-> <<>>]
Num(n) == [t |-> "number", n |-> n, s |-> <<>>]
Str(s) == [t |-> "string", n |-> 0, s |-> s]

Digits == <<"0", "1", "2", "3", "4", "5", "6", "7", "8", "9">>

IsDigit(c) == \E i \in 1..10 : Digits[i] = c

DigitValue(c) == (CHOOSE i \in 1..10 : Digits[i] = c) - 1

\* v || d
OrDefault(v, d) ==
  IF \/ v.t = "undefined"
     \/ (v.t = "number" /\ v.n = 0)
     \/ (v.t = "string" /\ v.s = <<>>)
  THEN d ELSE v

RECURSIVE NatToString(_)
NatToString(n) ==
  IF n < 10 THEN <<Digits[n + 1]>>
  ELSE NatToString(n \div 10) \o <<Digits[(n % 10) + 1]>>

\* v.toString() of a number or a string
toString(v) ==
  IF v.t = "string" THEN v.s
  ELSE IF v.n < 0 THEN <<"-">> \o NatToString(-v.n) ELSE NatToString(v.n)

RECURSIVE DigitPrefix(_)
DigitPrefix(s) ==
  IF s = <<>> \/ ~IsDigit(Head(s)) THEN <<>>
  ELSE <<Head(s)>> \o DigitPrefix(Tail(s))

RECURSIVE DigitsValue(_, _)
DigitsValue(s, acc) ==
  IF s = <<>> THEN acc ELSE DigitsValue(Tail(s), 10 * acc + DigitValue(Head(s)))

\* parseInt(s, 10): an optional sign, then the longest prefix of decimal
\* digits; NaN when there is none.
parseInt(s) ==
  LET neg == s # <<>> /\ Head(s) = "-"
      body == IF s # <<>> /\ Head(s) \in {"-", "+"} THEN Tail(s) ELSE s
      ds == DigitPrefix(body)
  IN IF ds = <<>> THEN [nan |-> TRUE, n |-> 0]
     ELSE [nan |-> FALSE, n |-> IF neg THEN -DigitsValue(ds, 0) ELSE DigitsValue(ds, 0)]

\* ------------------------------------------------------------ input sets
UntilInputs ==
  {Undefined, Str(<<"x">>), Str(<<"x", "3">>), Str(<<"3", "x">>)}
    \cup {Num(n) : n \in 0..(MaxTime + 1)}

Reasons == {"", "spam", "abuse"}

EmailConfirmedValues == {0, 1}

\* ---------------------------------------------------------------- groups
BANNED_USERS == "banned-users"

systemGroups ==
  {"registered-users", "verified-users", "unverified-users", "banned-users",
   "administrators", "Global Moderators"}

Groups == systemGroups

\* ----------------------------------------------------------------- state
VARIABLES
  now,     \* Date.now()
  store,   \* the collaborators' data: groups, user fields, sorted sets, objects
  tasks,   \* the ban and unban calls in flight (SpecConc)
  ret      \* the last completed call and what it returned (Spec)

vars == <<now, store, tasks, ret>>

NoRet == [op |-> "none"]

\* ------------------------------------------------- collaborator contracts
\* groups.leave(groupNames, uid)
GroupsLeave(st, groupNames, uid) ==
  [st EXCEPT !.members =
     [g \in Groups |-> IF g \in groupNames THEN @[g] \ {uid} ELSE @[g]]]

\* groups.join(groupNames, uid)
GroupsJoin(st, groupNames, uid) ==
  [st EXCEPT !.members =
     [g \in Groups |-> IF g \in groupNames THEN @[g] \cup {uid} ELSE @[g]]]

\* groups.isMember(uid, groupName)
GroupsIsMember(st, uid, groupName) == uid \in st.members[groupName]

\* db.sortedSetAdd(key, score, value) on one sorted set (member -> score)
SortedSetAdd(z, score, value) ==
  [m \in DOMAIN z \cup {value} |-> IF m = value THEN score ELSE z[m]]

\* db.sortedSetRemove(key, values) on one sorted set
SortedSetRemove(z, values) == [m \in DOMAIN z \ values |-> z[m]]

\* db.setObject(key, data) on one hash: the fields of data are written, the
\* hash's other fields stay (unban clears one field of user:<uid> this way).
SetObject(objects, key, data) ==
  [k \in DOMAIN objects \cup {key} |->
     IF k = key
     THEN (IF key \in DOMAIN objects THEN data @@ objects[key] ELSE data)
     ELSE objects[k]]

\* db.getSortedSetRevRange(key, 0, 0): the member of the highest score
SortedSetRevRange00(z) ==
  IF DOMAIN z = {} THEN <<>>
  ELSE <<CHOOSE m \in DOMAIN z : \A o \in DOMAIN z : z[o] <= z[m]>>

\* -------------------------------------------------------------------- ban
\* `uid:${uid}:ban:${now}`
BanKey(uid, at) == [uid |-> uid, ban |-> at]

\* BanLocals without the isNaN check: an until with no integer value counts as 0.
BanLocals_NaNAsZero(uid, untilArg, reasonArg, at) ==
  LET parsed == parseInt(toString(OrDefault(untilArg, Num(0))))
      until == parsed.n
      expire == IF until > at THEN until ELSE 0
      base == [uid |-> uid, timestamp |-> at, expire |-> expire]
  IN [ok |-> TRUE,
      uid |-> uid, until |-> until, reason |-> reasonArg, now |-> at,
      banKey |-> BanKey(uid, at),
      banData |-> IF reasonArg # "" THEN [reason |-> reasonArg] @@ base ELSE base]

\* src lines 16-34: the locals of a ban call, or the validation error.
BanLocals(uid, untilArg, reasonArg, at) ==
  LET parsed == parseInt(toString(OrDefault(untilArg, Num(0))))
      until == parsed.n
      expire == IF until > at THEN until ELSE 0
      base == [uid |-> uid, timestamp |-> at, expire |-> expire]
  IN [ok |-> ~parsed.nan,
      uid |-> uid, until |-> until, reason |-> reasonArg, now |-> at,
      banKey |-> BanKey(uid, at),
      banData |-> IF reasonArg # "" THEN [reason |-> reasonArg] @@ base ELSE base]

\* BanLeaveGroups that leaves the three base groups only.
BanLeaveGroups_BaseOnly(st, L) ==
  GroupsLeave(st, {"registered-users", "verified-users", "unverified-users"}, L.uid)

BanLeaveGroups(st, L) == GroupsLeave(st, systemGroups \ {BANNED_USERS}, L.uid)

BanJoinBanned(st, L) == GroupsJoin(st, {BANNED_USERS}, L.uid)

\* BanAddGlobal that writes the set anew instead of adding to it.
BanAddGlobal_Overwrite(st, L) ==
  [st EXCEPT !.usersBanned = SortedSetAdd(<< >>, L.now, L.uid)]

BanAddGlobal(st, L) ==
  [st EXCEPT !.usersBanned = SortedSetAdd(@, L.now, L.uid)]

BanAddHistory(st, L) ==
  [st EXCEPT !.bansTimestamp[L.uid] = SortedSetAdd(@, L.now, L.banKey)]

\* BanSetObject that writes the record without its reason.
BanSetObject_DropReason(st, L) ==
  [st EXCEPT !.objects =
     SetObject(@, L.banKey, [uid |-> L.uid, timestamp |-> L.now, expire |-> L.banData.expire])]

BanSetObject(st, L) ==
  [st EXCEPT !.objects = SetObject(@, L.banKey, L.banData)]

\* BanSetExpireField that stores the until given, in the future or not.
BanSetExpireField_RawUntil(st, L) ==
  [st EXCEPT !.bannedExpire[L.uid] = L.until]

BanSetExpireField(st, L) ==
  [st EXCEPT !.bannedExpire[L.uid] = L.banData.expire]

\* BanUpdateExpireSet without the else branch: a permanent ban leaves the set alone.
BanUpdateExpireSet_AddOnly(st, L) ==
  IF L.until > L.now
  THEN [st EXCEPT !.usersBannedExpire = SortedSetAdd(@, L.until, L.uid)]
  ELSE st

BanUpdateExpireSet(st, L) ==
  IF L.until > L.now
  THEN [st EXCEPT !.usersBannedExpire = SortedSetAdd(@, L.until, L.uid)]
  ELSE [st EXCEPT !.usersBannedExpire = SortedSetRemove(@, {L.uid})]

\* src lines 54-64: the payload of the notification
BanEmail(L) ==
  [template |-> "banned", uid |-> L.uid,
   until |-> IF L.until # 0 THEN [date |-> TRUE, ms |-> L.until]
             ELSE [date |-> FALSE, ms |-> 0],
   reason |-> L.reason]

NoEmail == [template |-> "none"]

\* emailer.send('banned', uid, data): what reaches the user, delivered or rejected
BanSendEmail(L, delivered) == IF delivered THEN BanEmail(L) ELSE NoEmail

\* BanAfterSend without the catch: a rejected send rejects the ban.
BanAfterSend_NoCatch(delivered) == IF delivered THEN "fulfilled" ELSE "rejected"

\* src line 66: a rejected send is caught and logged, so the awaited promise
\* fulfils either way and ban goes on to return banData.
BanAfterSend(delivered) == "fulfilled"

\* BanStep with the history key written before the global banned-set.
BanStep_HistoryFirst(k, st, L) ==
  CASE k = 1 -> BanLeaveGroups(st, L)
    [] k = 2 -> BanJoinBanned(st, L)
    [] k = 3 -> BanAddHistory(st, L)
    [] k = 4 -> BanAddGlobal(st, L)
    [] k = 5 -> BanSetObject(st, L)
    [] k = 6 -> BanSetExpireField(st, L)
    [] k = 7 -> BanUpdateExpireSet(st, L)
    [] k = 8 -> st
    [] k = 9 -> st

BanLastStep == 9

\* The k-th awaited call of ban (src lines 38-66).
BanStep(k, st, L) ==
  CASE k = 1 -> BanLeaveGroups(st, L)
    [] k = 2 -> BanJoinBanned(st, L)
    [] k = 3 -> BanAddGlobal(st, L)
    [] k = 4 -> BanAddHistory(st, L)
    [] k = 5 -> BanSetObject(st, L)
    [] k = 6 -> BanSetExpireField(st, L)
    [] k = 7 -> BanUpdateExpireSet(st, L)
    [] k = 8 -> st
    [] k = 9 -> st

RECURSIVE BanRun(_, _, _)
BanRun(k, st, L) ==
  IF k > BanLastStep THEN st
  ELSE BanRun(k + 1, BanStep(k, st, L), L)

\* ------------------------------------------------------------------ unban
\* User.getUsersFields(uids, fields): one record per id, in the order given
getUsersFields(st, uids) ==
  [i \in 1..Len(uids) |->
     [uid |-> uids[i],
      emailConfirmed |-> st.emailConfirmed[uids[i]],
      bannedExpire |-> st.bannedExpire[uids[i]]]]

\* An argument that is one id or an array of ids.
One(uid) == [isArray |-> FALSE, ids |-> <<uid>>]
Many(ids) == [isArray |-> TRUE, ids |-> ids]

\* src lines 80-83
systemGroupsToJoin(user) ==
  {"registered-users",
   IF parseInt(toString(Num(user.emailConfirmed))).n = 1
   THEN "verified-users" ELSE "unverified-users"}

\* UnbanClearExpire that leaves the expiry field as it is.
UnbanClearExpire_Skip(st, uids) == st

\* src line 76
UnbanClearExpire(st, uids) ==
  [st EXCEPT !.bannedExpire =
     [u \in Uids |-> IF \E i \in 1..Len(uids) : uids[i] = u THEN 0 ELSE @[u]]]

UnbanLeaveBanned(st, user) == GroupsLeave(st, {BANNED_USERS}, user.uid)

UnbanJoinGroups(st, user) == GroupsJoin(st, systemGroupsToJoin(user), user.uid)

\* UnbanRemoveFromSets that forgets the global banned-set.
UnbanRemoveFromSets_ExpireOnly(st, uids) ==
  LET gone == {uids[i] : i \in 1..Len(uids)}
  IN [st EXCEPT !.usersBannedExpire = SortedSetRemove(@, gone)]

\* src line 89
UnbanRemoveFromSets(st, uids) ==
  LET gone == {uids[i] : i \in 1..Len(uids)}
  IN [st EXCEPT !.usersBanned = SortedSetRemove(@, gone),
                !.usersBannedExpire = SortedSetRemove(@, gone)]

UnbanLastStep(uids) == 3 + 2 * Len(uids)

\* The k-th awaited call of unban (src lines 74-89); userData is what the
\* first one read.
UnbanStep(k, st, uids, userData) ==
  CASE k = 1 -> st
    [] k = 2 -> UnbanClearExpire(st, uids)
    [] k = UnbanLastStep(uids) -> UnbanRemoveFromSets(st, uids)
    [] OTHER ->
         IF k % 2 = 1 THEN UnbanLeaveBanned(st, userData[(k - 1) \div 2])
         ELSE UnbanJoinGroups(st, userData[(k - 2) \div 2])

RECURSIVE UnbanRun(_, _, _, _)
UnbanRun(k, st, uids, userData) ==
  IF k > UnbanLastStep(uids) THEN st
  ELSE UnbanRun(k + 1, UnbanStep(k, st, uids, userData), uids, userData)

\* ------------------------------------------------------------------ reads
\* calcExpiredFromUserData that takes every nonzero expiry as passed.
calcExpiredFromUserData_NoClock(st, userData, at) ==
  [i \in 1..Len(userData) |->
     [banned |-> GroupsIsMember(st, userData[i].uid, BANNED_USERS),
      bannedExpire |-> userData[i].bannedExpire,
      banExpired |-> userData[i].bannedExpire # 0]]

\* src lines 121-131, on an array of user records
calcExpiredFromUserData(st, userData, at) ==
  [i \in 1..Len(userData) |->
     [banned |-> GroupsIsMember(st, userData[i].uid, BANNED_USERS),
      bannedExpire |-> userData[i].bannedExpire,
      banExpired |-> userData[i].bannedExpire <= at /\ userData[i].bannedExpire # 0]]

\* src lines 115-119
unbanIfExpired(st, uids, at) ==
  calcExpiredFromUserData(st, getUsersFields(st, uids), at)

\* src lines 92-97: [isArray, list]; a single result is list[1]
isBanned(st, arg, at) ==
  LET result == unbanIfExpired(st, arg.ids, at)
  IN [isArray |-> arg.isArray, list |-> [i \in 1..Len(result) |-> result[i].banned]]

\* filterBanned that answers a single id like an array of one.
filterBanned_SingleKept(st, arg, at) ==
  LET banned == isBanned(st, arg, at)
      filterFn(index) == IF banned.isArray THEN ~banned.list[index] ELSE ~banned.list[1]
      RECURSIVE Keep(_)
      Keep(i) == IF i > Len(arg.ids) THEN <<>>
                 ELSE (IF filterFn(i) THEN <<arg.ids[i]>> ELSE <<>>) \o Keep(i + 1)
  IN Keep(1)

\* src lines 133-149
filterBanned(st, arg, at) ==
  LET banned == isBanned(st, arg, at)
      filterFn(index) == IF banned.isArray THEN ~banned.list[index] ELSE ~banned.list[1]
      RECURSIVE Keep(_)
      Keep(i) == IF i > Len(arg.ids) THEN <<>>
                 ELSE (IF filterFn(i) THEN <<arg.ids[i]>> ELSE <<>>) \o Keep(i + 1)
  IN IF arg.isArray THEN Keep(1) ELSE <<>>

\* canLoginIfBanned without the look at the user's own grant.
canLoginIfBanned_GroupOnly(st, uid, at, canGroup, isMember) ==
  LET banned == unbanIfExpired(st, <<uid>>, at)[1].banned
  IN IF banned THEN canGroup ELSE TRUE

\* src lines 99-113; canGroup and isMember are what the privilege service and
\* the groups service answer for the login privilege
canLoginIfBanned(st, uid, at, canGroup, isMember) ==
  LET banned == unbanIfExpired(st, <<uid>>, at)[1].banned
      canLogin1 == IF banned THEN canGroup ELSE TRUE
  IN IF banned /\ ~canLogin1 THEN isMember ELSE canLogin1

\* src lines 151-161
getReason(st, uid) ==
  IF parseInt(toString(Num(uid))).n <= 0 THEN ""
  ELSE LET keys == SortedSetRevRange00(st.bansTimestamp[uid])
       IN IF Len(keys) = 0 THEN ""
          ELSE IF keys[1] \in DOMAIN st.objects /\ "reason" \in DOMAIN st.objects[keys[1]]
               THEN st.objects[keys[1]].reason ELSE ""

\* src line 155: the newest key of the user's ban history
getReasonKeys(st, uid) == SortedSetRevRange00(st.bansTimestamp[uid])

\* src line 159: db.getObject(keys[0]), null when there is no such hash
getReasonObject(st, keys) ==
  IF keys[1] \in DOMAIN st.objects
  THEN [found |-> TRUE, obj |-> st.objects[keys[1]]]
  ELSE [found |-> FALSE, obj |-> << >>]

\* src line 160
getReasonValue(banObj) ==
  IF banObj.found /\ "reason" \in DOMAIN banObj.obj /\ banObj.obj.reason # ""
  THEN banObj.obj.reason ELSE ""

\* getReasonReads that goes to the store before it looks at the id.
getReasonReads_NoGuard(st, uid) ==
  IF uid \notin DOMAIN st.bansTimestamp THEN 1
  ELSE IF Len(SortedSetRevRange00(st.bansTimestamp[uid])) = 0 THEN 1
  ELSE 2

\* src lines 152-159: how many store reads a getReason call awaits
getReasonReads(st, uid) ==
  IF parseInt(toString(Num(uid))).n <= 0 THEN 0
  ELSE IF Len(SortedSetRevRange00(st.bansTimestamp[uid])) = 0 THEN 1
  ELSE 2

\* ----------------------------------------------------------------- Init
InitStore ==
  [members |->
     [g \in Groups |->
        CASE g = "registered-users" -> Uids
          [] g = "unverified-users" -> Uids
          [] g = "administrators" -> {1}
          [] g = "Global Moderators" -> Uids \cap {2}
          [] OTHER -> {}],
   emailConfirmed |-> [u \in Uids |-> 0],
   bannedExpire |-> [u \in Uids |-> 0],
   usersBanned |-> << >>,
   usersBannedExpire |-> << >>,
   bansTimestamp |-> [u \in Uids |-> << >>],
   objects |-> << >>]

Init ==
  /\ now = 1
  /\ store = InitStore
  /\ tasks = << >>
  /\ ret = NoRet

\* --------------------------------------------------------------- actions
\* Calls are made one at a time: a call runs to completion and leaves what it
\* returned in ret; the caller takes the result before the next call starts.
Idle == ret.op = "none" /\ \A t \in DOMAIN tasks : tasks[t].status # "running"

Return ==
  /\ ret.op # "none"
  /\ ret' = NoRet
  /\ UNCHANGED <<now, store, tasks>>

\* Time passes between calls and while calls wait.
Tick ==
  /\ ret.op = "none"
  /\ now < MaxTime
  /\ now' = now + 1
  /\ UNCHANGED <<store, tasks, ret>>

RECURSIVE SeqsUpTo(_, _)
SeqsUpTo(S, n) ==
  IF n = 0 THEN {<<>>}
  ELSE LET shorter == SeqsUpTo(S, n - 1)
       IN shorter \cup {Append(q, x) : q \in shorter, x \in S}

UidArgs == {One(u) : u \in Uids} \cup {Many(q) : q \in SeqsUpTo(Uids, MaxLen)}

\* A ban writes at most one new record; the model stops at MaxRecords records.
RoomFor(banKey) == Cardinality(DOMAIN store.objects \cup {banKey}) <= MaxRecords

Ban ==
  \E uid \in Uids, untilArg \in UntilInputs, reasonArg \in Reasons, delivered \in BOOLEAN :
    LET L == BanLocals(uid, untilArg, reasonArg, now)
    IN /\ Idle
       /\ RoomFor(L.banKey)
       /\ IF L.ok
          THEN /\ store' = BanRun(1, store, L)
               /\ ret' = [op |-> "ban", status |-> BanAfterSend(delivered), uid |-> uid,
                          untilArg |-> untilArg, reason |-> reasonArg, at |-> now,
                          email |-> BanSendEmail(L, delivered), value |-> L.banData]
          ELSE /\ store' = store
               /\ ret' = [op |-> "ban", status |-> "rejected", uid |-> uid,
                          untilArg |-> untilArg, reason |-> reasonArg, at |-> now,
                          email |-> NoEmail, error |-> "[[error:ban-expiry-missing]]"]
       /\ UNCHANGED <<now, tasks>>

Unban ==
  \E arg \in UidArgs :
    LET userData == getUsersFields(store, arg.ids)
    IN /\ Idle
       /\ store' = UnbanRun(1, store, arg.ids, userData)
       /\ ret' = [op |-> "unban", status |-> "fulfilled", arg |-> arg,
                  userData |-> userData]
       /\ UNCHANGED <<now, tasks>>

IsBanned ==
  \E arg \in UidArgs :
    /\ Idle
    /\ ret' = [op |-> "isBanned", arg |-> arg, value |-> isBanned(store, arg, now)]
    /\ UNCHANGED <<now, store, tasks>>

FilterBanned ==
  \E arg \in UidArgs :
    /\ Idle
    /\ ret' = [op |-> "filterBanned", arg |-> arg, value |-> filterBanned(store, arg, now)]
    /\ UNCHANGED <<now, store, tasks>>

CanLoginIfBanned ==
  \E uid \in Uids, canGroup \in BOOLEAN, isMember \in BOOLEAN :
    /\ Idle
    /\ ret' = [op |-> "canLoginIfBanned", uid |-> uid, canGroup |-> canGroup,
               isMember |-> isMember,
               value |-> canLoginIfBanned(store, uid, now, canGroup, isMember)]
    /\ UNCHANGED <<now, store, tasks>>

\* The id lists given to unbanIfExpired: distinct ids, in any order.
ReadUidLists == {q \in SeqsUpTo(Uids, MaxLen) : Len(q) > 0 /\ (Len(q) = 2 => q[1] # q[2])}

UnbanIfExpired ==
  \E uids \in ReadUidLists :
    /\ Idle
    /\ ret' = [op |-> "unbanIfExpired", uids |-> uids,
               value |-> unbanIfExpired(store, uids, now)]
    /\ UNCHANGED <<now, store, tasks>>

GetReason ==
  \E uid \in (-1)..NumUsers :
    /\ Idle
    /\ ret' = [op |-> "getReason", uid |-> uid, value |-> getReason(store, uid),
               reads |-> getReasonReads(store, uid)]
    /\ UNCHANGED <<now, store, tasks>>

\* The user confirms the email address: the hosting application raises the
\* email:confirmed field of the user record.
SetEmailConfirmed ==
  \E uid \in Uids, v \in EmailConfirmedValues :
    /\ Idle
    /\ store.emailConfirmed[uid] < v
    /\ store' = [store EXCEPT !.emailConfirmed[uid] = v]
    /\ UNCHANGED <<now, tasks, ret>>

Next ==
  \/ Return
  \/ Tick
  \/ Ban
  \/ Unban
  \/ IsBanned
  \/ FilterBanned
  \/ CanLoginIfBanned
  \/ UnbanIfExpired
  \/ GetReason
  \/ SetEmailConfirmed

\* ----------------------------------------------------- concurrent calls
\* A call in flight is a task: it stands before its pc-th awaited call. Tasks
\* interleave at every await, and every awaited call may throw.
ConcUntilInputs == {Undefined, Num(MaxTime + 1)}

ConcUidArgs ==
  {One(u) : u \in Uids} \cup {Many(<<q[1], q[2]>>) : q \in {p \in Uids \X Uids : p[1] # p[2]}}

Running(t) == t \in DOMAIN tasks /\ tasks[t].status = "running"

\* The users a task works on.
TaskUids(task) ==
  IF task.op = "ban" THEN {task.L.uid} ELSE {task.uids[i] : i \in 1..Len(task.uids)}

\* Starting a task beside running tasks marks them all as having run beside
\* another call, and those on the same user as having overlapped.
Admit(task) ==
  LET others == {t \in DOMAIN tasks : Running(t)}
      rivals == {t \in others : TaskUids(tasks[t]) \cap TaskUids(task) # {}}
  IN [t \in 1..(Len(tasks) + 1) |->
        IF t = Len(tasks) + 1
        THEN [task EXCEPT !.overlap = rivals # {}, !.beside = others # {}]
        ELSE IF t \in rivals THEN [tasks[t] EXCEPT !.overlap = TRUE, !.beside = TRUE]
        ELSE IF t \in others THEN [tasks[t] EXCEPT !.beside = TRUE]
        ELSE tasks[t]]

\* The ban and unban calls started so far.
Writers == {t \in DOMAIN tasks : tasks[t].op \in {"ban", "unban"}}

Readers == {t \in DOMAIN tasks : tasks[t].op = "getReason"}

StartBan ==
  \E uid \in Uids, untilArg \in ConcUntilInputs, reasonArg \in Reasons :
    LET L == BanLocals(uid, untilArg, reasonArg, now)
    IN /\ ret.op = "none"
       /\ Cardinality(Writers) < MaxTasks
       /\ RoomFor(L.banKey)
       /\ L.ok
       /\ tasks' = Admit([op |-> "ban", status |-> "running", pc |-> 1, L |-> L,
                          threwAt |-> 0, email |-> NoEmail, overlap |-> FALSE,
                          beside |-> FALSE])
       /\ UNCHANGED <<now, store, ret>>

StartUnban ==
  \E arg \in ConcUidArgs :
    /\ ret.op = "none"
    /\ Cardinality(Writers) < MaxTasks
    /\ tasks' = Admit([op |-> "unban", status |-> "running", pc |-> 1,
                       uids |-> arg.ids, userData |-> <<>>,
                       threwAt |-> 0, overlap |-> FALSE, beside |-> FALSE])
    /\ UNCHANGED <<now, store, ret>>

\* The awaited call a ban task stands before succeeds.
BanTaskStep ==
  \E t \in DOMAIN tasks :
    /\ Running(t)
    /\ tasks[t].op = "ban"
    /\ store' = BanStep(tasks[t].pc, store, tasks[t].L)
    /\ tasks' = [tasks EXCEPT
         ![t].pc = @ + 1,
         ![t].status = IF tasks[t].pc = BanLastStep THEN "fulfilled" ELSE @,
         ![t].email = IF tasks[t].pc = BanLastStep
                      THEN BanSendEmail(tasks[t].L, TRUE) ELSE @]
    /\ UNCHANGED <<now, ret>>

\* The awaited call an unban task stands before succeeds.
UnbanTaskStep ==
  \E t \in DOMAIN tasks :
    /\ Running(t)
    /\ tasks[t].op = "unban"
    /\ store' = UnbanStep(tasks[t].pc, store, tasks[t].uids, tasks[t].userData)
    /\ tasks' = [tasks EXCEPT
         ![t].pc = @ + 1,
         ![t].status = IF tasks[t].pc = UnbanLastStep(tasks[t].uids)
                       THEN "fulfilled" ELSE @,
         ![t].userData = IF tasks[t].pc = 1
                         THEN getUsersFields(store, tasks[t].uids) ELSE @]
    /\ UNCHANGED <<now, ret>>

\* The awaited call a task stands before throws: the call rejects, except
\* that ban catches what emailer.send throws (src line 66).
TaskThrow ==
  \E t \in DOMAIN tasks :
    LET caught == tasks[t].op = "ban" /\ tasks[t].pc = BanLastStep
    IN /\ Running(t)
       /\ tasks' = [tasks EXCEPT
            ![t].threwAt = tasks[t].pc,
            ![t].status = IF caught THEN "fulfilled" ELSE "rejected",
            ![t].pc = IF caught THEN @ + 1 ELSE @]
       /\ UNCHANGED <<now, store, ret>>

NextConc ==
  \/ Tick
  \/ StartBan
  \/ StartUnban
  \/ BanTaskStep
  \/ UnbanTaskStep
  \/ TaskThrow

\* ------------------------------------------- getReason beside a second ban
\* A first ban of a user has completed, alone and with its notification sent.
InitAfterBan ==
  \E uid \in Uids, untilArg \in ConcUntilInputs, reasonArg \in Reasons :
    LET L == BanLocals(uid, untilArg, reasonArg, 1)
    IN /\ now = 1
       /\ store = BanRun(1, InitStore, L)
       /\ tasks = <<[op |-> "ban", status |-> "fulfilled", pc |-> BanLastStep + 1,
                      L |-> L, threwAt |-> 0, email |-> BanSendEmail(L, TRUE),
                      overlap |-> FALSE, beside |-> FALSE]>>
       /\ ret = NoRet

\* A getReason call of a positive id: it stands before its pc-th awaited read.
StartGetReason ==
  \E uid \in Uids :
    /\ ret.op = "none"
    /\ Cardinality(Readers) < MaxReaders
    /\ tasks' = Admit([op |-> "getReason", status |-> "running", pc |-> 1,
                       uids |-> <<uid>>, keys |-> << >>,
                       banObj |-> [found |-> FALSE, obj |-> << >>], value |-> "",
                       threwAt |-> 0, overlap |-> FALSE, beside |-> FALSE])
    /\ UNCHANGED <<now, store, ret>>

\* The awaited read a getReason task stands before returns (src lines 155-160).
GetReasonTaskStep ==
  \E t \in DOMAIN tasks :
    LET task == tasks[t]
        keys == getReasonKeys(store, task.uids[1])
        banObj == getReasonObject(store, task.keys)
    IN /\ Running(t)
       /\ task.op = "getReason"
       /\ tasks' = [tasks EXCEPT ![t] =
            IF task.pc = 1
            THEN [task EXCEPT !.pc = 2, !.keys = keys,
                              !.status = IF Len(keys) = 0 THEN "fulfilled" ELSE @]
            ELSE [task EXCEPT !.pc = 3, !.banObj = banObj,
                              !.value = getReasonValue(banObj),
                              !.status = "fulfilled"]]
       /\ UNCHANGED <<now, store, ret>>

NextReason ==
  \/ Tick
  \/ StartBan
  \/ BanTaskStep
  \/ StartGetReason
  \/ GetReasonTaskStep

\* ================================================================ claims
InGroup(u, g) == u \in store.members[g]

SystemGroupsOf(st, u) == {g \in systemGroups : u \in st.members[g]}

BanReturned == ret.op = "ban" /\ ret.status = "fulfilled"

\* The until argument is a number (a timestamp), or absent.
UntilIsFuture(untilArg, at) == untilArg.t = "number" /\ untilArg.n > at

UntilIsPermanent(untilArg, at) ==
  untilArg.t = "undefined" \/ (untilArg.t = "number" /\ untilArg.n <= at)

\* A string that does not start with a digit or a sign has no integer value.
Unparseable(untilArg) ==
  /\ untilArg.t = "string"
  /\ untilArg.s # <<>>
  /\ Head(untilArg.s) \notin {"0", "1", "2", "3", "4", "5", "6", "7", "8", "9", "-", "+"}

\* C1: after a completed ban(u, until, reason) with until > now, isBanned(u)
\* is true and getReason(u) is exactly that reason, whatever bans and unbans
\* of u completed before it.
C1_BannedWithThatReason ==
  (BanReturned /\ UntilIsFuture(ret.untilArg, ret.at)) =>
     /\ isBanned(store, One(ret.uid), now).list[1] = TRUE
     /\ getReason(store, ret.uid) = ret.reason

\* C2: after unban, every id unbanned is not banned, has expiry field 0, is in
\* registered-users and in exactly one of verified-users / unverified-users,
\* the one the email:confirmed flag read by the unban selects.
C2_UnbanRestoresBaseGroups ==
  ret.op = "unban" =>
    \A i \in 1..Len(ret.arg.ids) :
      LET u == ret.arg.ids[i]
          confirmed == ret.userData[i].emailConfirmed = 1
      IN /\ isBanned(store, One(u), now).list[1] = FALSE
         /\ store.bannedExpire[u] = 0
         /\ InGroup(u, "registered-users")
         /\ InGroup(u, "verified-users") <=> confirmed
         /\ InGroup(u, "unverified-users") <=> ~confirmed

\* C3: after ban(u) with until absent, 0 or not after the current time, the
\* stored record has expire 0, the expiry field is 0 and u is not in the
\* expiring-ban set; after ban(u, until) with until > now, u is in the
\* expiring-ban set with score until and the record's expire is until.
C3_ExpiryFollowsUntil ==
  BanReturned =>
    LET u == ret.uid
        record == store.objects[BanKey(u, ret.at)]
    IN /\ UntilIsPermanent(ret.untilArg, ret.at) =>
            /\ record.expire = 0
            /\ ret.value.expire = 0
            /\ store.bannedExpire[u] = 0
            /\ u \notin DOMAIN store.usersBannedExpire
       /\ UntilIsFuture(ret.untilArg, ret.at) =>
            /\ u \in DOMAIN store.usersBannedExpire
            /\ store.usersBannedExpire[u] = ret.untilArg.n
            /\ record.expire = ret.untilArg.n
            /\ store.bannedExpire[u] = ret.untilArg.n

\* A permanent ban of a user who has an earlier, time-bounded ban on record.
C3_Witness ==
  /\ BanReturned
  /\ ret.untilArg = Num(1)
  /\ ret.at = 2
  /\ BanKey(ret.uid, 1) \in DOMAIN store.objects
  /\ store.objects[BanKey(ret.uid, 1)].expire = 2
  /\ ret.uid \notin DOMAIN store.usersBannedExpire

\* C4: a ban whose until has no integer value fails with
\* [[error:ban-expiry-missing]], changes nothing in the store and sends no email.
C4_BadUntilFailsFast ==
  [][(ret'.op = "ban" /\ ret.op = "none" /\ Unparseable(ret'.untilArg)) =>
       /\ ret'.status = "rejected"
       /\ ret'.error = "[[error:ban-expiry-missing]]"
       /\ ret'.email = NoEmail
       /\ store' = store]_vars

C4_Witness ==
  /\ ret.op = "ban"
  /\ ret.status = "rejected"
  /\ Unparseable(ret.untilArg)
  /\ \E u \in Uids : InGroup(u, BANNED_USERS)

\* C5: through any sequence of completed ban and unban calls, a user is in the
\* banned group iff the user is in the global banned-set, and isBanned reports
\* exactly the banned-group membership.
C5_GroupMatchesBannedSet ==
  \A u \in Uids :
    /\ InGroup(u, BANNED_USERS) <=> u \in DOMAIN store.usersBanned
    /\ isBanned(store, One(u), now).list[1] = InGroup(u, BANNED_USERS)
    /\ isBanned(store, Many(<<u>>), now).list = <<InGroup(u, BANNED_USERS)>>

\* One user banned and another unbanned again after a ban.
C5_Witness ==
  \E u, v \in Uids :
    /\ InGroup(u, BANNED_USERS)
    /\ ~InGroup(v, BANNED_USERS)
    /\ store.bansTimestamp[v] # << >>
    /\ ret.op = "unban"

\* Group membership agrees with the global banned-set, and the expiry field
\* with the expiring-ban set.
Consistent(u) ==
  /\ InGroup(u, BANNED_USERS) <=> u \in DOMAIN store.usersBanned
  /\ store.bannedExpire[u] # 0 <=> u \in DOMAIN store.usersBannedExpire

Fulfilled(t) == tasks[t].status = "fulfilled"

\* C6 as claimed: a ban(u) and an unban(u) that ran concurrently leave, once
\* both have completed, u in the banned group iff in the global banned-set and
\* u's expiry field nonzero iff u is in the expiring-ban set.
C6_ConcurrentBanUnbanConverges ==
  \A tb, tu \in DOMAIN tasks :
    (/\ tasks[tb].op = "ban" /\ tasks[tu].op = "unban"
     /\ Fulfilled(tb) /\ Fulfilled(tu)
     /\ tasks[tb].overlap /\ tasks[tu].overlap
     /\ tasks[tb].L.uid \in TaskUids(tasks[tu])
     /\ \A t \in DOMAIN tasks : Fulfilled(t))
      => Consistent(tasks[tb].L.uid)

\* C6 as amended: once all calls have completed, without an error, and no two
\* calls on the same user overlapped, every user's group membership agrees
\* with the global banned-set and every expiry field with the expiring-ban set.
C6_SerialCallsConverge ==
  (\A t \in DOMAIN tasks : Fulfilled(t) /\ tasks[t].threwAt = 0 /\ ~tasks[t].overlap)
    => \A u \in Uids : Consistent(u)

\* A time-bounded ban and then an unban of the same user, one after the other.
C6_Witness ==
  /\ Len(tasks) = 2
  /\ tasks[1].op = "ban" /\ tasks[2].op = "unban"
  /\ Fulfilled(1) /\ Fulfilled(2)
  /\ ~tasks[1].overlap /\ ~tasks[2].overlap
  /\ tasks[1].L.banData.expire # 0
  /\ tasks[1].L.uid \in TaskUids(tasks[2])

\* Task t's awaited call throws in this step.
ThrowAt(t) == Running(t) /\ tasks'[t].threwAt # 0

\* The call fails where it stands and nothing is undone.
FailsThere(t) ==
  /\ tasks'[t].status = "rejected"
  /\ tasks'[t].pc = tasks[t].pc
  /\ tasks'[t].threwAt = tasks[t].pc
  /\ store' = store

\* A call that failed takes no further step.
StaysFailed(t) == tasks[t].status = "rejected" => tasks'[t] = tasks[t]

OnlyChanges(f) == \A g \in DOMAIN store \ {f} : store'[g] = store[g]

\* Ban task t takes its k-th step here: what that step does, and to what.
BanStepEffect(t) ==
  LET k == tasks[t].pc
      L == tasks[t].L
  IN (Running(t) /\ tasks[t].op = "ban" /\ tasks'[t].pc = k + 1 /\ tasks'[t].threwAt = 0) =>
       CASE k = 1 -> /\ OnlyChanges("members")
                     /\ \A g \in systemGroups \ {BANNED_USERS} : L.uid \notin store'.members[g]
         [] k = 2 -> /\ OnlyChanges("members")
                     /\ L.uid \in store'.members[BANNED_USERS]
         [] k = 3 -> /\ OnlyChanges("usersBanned")
                     /\ L.uid \in DOMAIN store'.usersBanned
                     /\ store'.usersBanned[L.uid] = L.now
         [] k = 4 -> /\ OnlyChanges("bansTimestamp")
                     /\ L.banKey \in DOMAIN store'.bansTimestamp[L.uid]
         [] k = 5 -> /\ OnlyChanges("objects")
                     /\ L.banKey \in DOMAIN store'.objects
                     /\ store'.objects[L.banKey].expire = L.banData.expire
         [] k = 6 -> /\ OnlyChanges("bannedExpire")
                     /\ store'.bannedExpire[L.uid] = L.banData.expire
         [] k = 7 -> /\ OnlyChanges("usersBannedExpire")
                     /\ L.uid \in DOMAIN store'.usersBannedExpire <=> L.until > L.now
         [] k = 8 -> store' = store
         [] k = 9 -> /\ store' = store
                     /\ tasks'[t].email.template = "banned"
                     /\ tasks'[t].status = "fulfilled"

\* C7 as claimed: when the k-th awaited call of a ban or unban throws, the
\* call fails there with steps 1..k-1 committed and no later step taken; the
\* steps of ban take effect in the order leave groups, join banned, global
\* banned-set, history key, record, expiry field, expiring-ban set, email.
C7_AnyThrowFailsTheCall ==
  [][\A t \in DOMAIN tasks :
       /\ ThrowAt(t) => FailsThere(t)
       /\ StaysFailed(t)
       /\ BanStepEffect(t)]_vars

IsEmailSend(t) == tasks[t].op = "ban" /\ tasks[t].pc = BanLastStep

\* C7 as amended: the same, except for the last awaited call of ban, the
\* email send: when it throws the ban still completes, with everything
\* committed and no email sent.
C7_ThrowFailsExceptEmail ==
  [][\A t \in DOMAIN tasks :
       /\ (ThrowAt(t) /\ ~IsEmailSend(t)) => FailsThere(t)
       /\ (ThrowAt(t) /\ IsEmailSend(t)) =>
            /\ tasks'[t].status = "fulfilled"
            /\ tasks'[t].email = NoEmail
            /\ store' = store
       /\ StaysFailed(t)
       /\ BanStepEffect(t)]_vars

\* A ban that failed at its fifth awaited call: the history key is written,
\* the record is not.
C7_Witness ==
  \E t \in DOMAIN tasks :
    /\ tasks[t].op = "ban"
    /\ tasks[t].status = "rejected"
    /\ tasks[t].threwAt = 5
    /\ tasks[t].L.banKey \in DOMAIN store.bansTimestamp[tasks[t].L.uid]
    /\ tasks[t].L.banKey \notin DOMAIN store.objects
    /\ InGroup(tasks[t].L.uid, BANNED_USERS)

\* C8: canLoginIfBanned is true for a user outside the banned group; for a
\* banned user it is true iff the banned group holds local:login or the user
\* holds the individual login grant.
C8_CanLogin ==
  ret.op = "canLoginIfBanned" =>
    ret.value = (~InGroup(ret.uid, BANNED_USERS) \/ ret.canGroup \/ ret.isMember)

\* A banned user whose group is denied and who holds the individual grant.
C8_Witness ==
  /\ ret.op = "canLoginIfBanned"
  /\ InGroup(ret.uid, BANNED_USERS)
  /\ ~ret.canGroup
  /\ ret.isMember
  /\ ret.value = TRUE

RECURSIVE NotBannedOf(_)
NotBannedOf(ids) ==
  IF ids = <<>> THEN <<>>
  ELSE (IF InGroup(Head(ids), BANNED_USERS) THEN <<>> ELSE <<Head(ids)>>)
         \o NotBannedOf(Tail(ids))

\* C9: filterBanned of an array is the array without the ids in the banned
\* group, order and multiplicity kept; of a single id it is the empty list.
C9_FilterBanned ==
  ret.op = "filterBanned" =>
    ret.value = IF ret.arg.isArray THEN NotBannedOf(ret.arg.ids) ELSE <<>>

\* An array that holds a banned id before an id that is not banned.
C9_Witness ==
  /\ ret.op = "filterBanned"
  /\ ret.arg.isArray
  /\ Len(ret.arg.ids) = 2
  /\ InGroup(ret.arg.ids[1], BANNED_USERS)
  /\ ~InGroup(ret.arg.ids[2], BANNED_USERS)
  /\ ret.value = <<ret.arg.ids[2]>>

C11_EmailFailureNeverFailsBan ==
  (ret.op = "ban" /\ ~parseInt(toString(OrDefault(ret.untilArg, Num(0)))).nan) =>
    LET u == ret.uid
        banKey == BanKey(ret.uid, ret.at)
        until == parseInt(toString(OrDefault(ret.untilArg, Num(0)))).n
        expire == IF until > ret.at THEN until ELSE 0
    IN /\ ret.status = "fulfilled"
       /\ ret.value.uid = u /\ ret.value.timestamp = ret.at /\ ret.value.expire = expire
       /\ banKey \in DOMAIN store.objects
       /\ \A f \in DOMAIN ret.value : store.objects[banKey][f] = ret.value[f]
       /\ SystemGroupsOf(store, u) = {BANNED_USERS}
       /\ u \in DOMAIN store.usersBanned /\ store.usersBanned[u] = ret.at
       /\ banKey \in DOMAIN store.bansTimestamp[u]
       /\ store.bannedExpire[u] = expire
       /\ u \in DOMAIN store.usersBannedExpire <=> expire # 0
       /\ expire # 0 => store.usersBannedExpire[u] = expire

\* A time-bounded ban completed although its notification was rejected.
C11_Witness ==
  /\ BanReturned
  /\ ret.email = NoEmail
  /\ ret.value.expire # 0
  /\ InGroup(ret.uid, BANNED_USERS)
  /\ ret.uid \in DOMAIN store.usersBannedExpire

\* The call of task run alone, from start to end, on store st.
RunTask(st, task) ==
  IF task.op = "ban" THEN BanRun(1, st, task.L)
  ELSE UnbanRun(1, st, task.uids, getUsersFields(st, task.uids))

\* C12: two ban/unban calls on different users, interleaved in any way at
\* their awaited calls, leave the store that running them one after the other
\* leaves, in either order: each user's groups, fields, history and records,
\* and both users' entries in the global banned-set and the expiring-ban set.
C12_DifferentUsersIndependent ==
  \A a, b \in DOMAIN tasks :
    (/\ Len(tasks) = 2 /\ a # b
     /\ Fulfilled(a) /\ Fulfilled(b)
     /\ tasks[a].threwAt = 0 /\ tasks[b].threwAt = 0
     /\ TaskUids(tasks[a]) \cap TaskUids(tasks[b]) = {})
      => store = RunTask(RunTask(InitStore, tasks[a]), tasks[b])

\* A time-bounded ban of one user and a ban of another that ran beside each
\* other, both completed.
C12_Witness ==
  /\ Len(tasks) = 2
  /\ tasks[1].op = "ban" /\ tasks[2].op = "ban"
  /\ tasks[1].L.uid # tasks[2].L.uid
  /\ tasks[1].L.banData.expire # 0
  /\ Fulfilled(1) /\ Fulfilled(2)
  /\ tasks[1].threwAt = 0 /\ tasks[2].threwAt = 0
  /\ tasks[1].beside /\ tasks[2].beside
  /\ DOMAIN store.usersBanned = {tasks[1].L.uid, tasks[2].L.uid}

\* C13: a banned user is in the banned group and in no other system group;
\* unban of a banned user leaves the user in exactly registered-users and the
\* one of verified-users / unverified-users that the email:confirmed flag
\* selects, so no administrator or global-moderator membership comes back.
C13_UnbanRestoresNoElevatedGroup ==
  [][/\ \A u \in Uids :
          InGroup(u, BANNED_USERS) => SystemGroupsOf(store, u) = {BANNED_USERS}
     /\ (ret.op = "none" /\ ret'.op = "ban" /\ ret'.status = "fulfilled") =>
          SystemGroupsOf(store', ret'.uid) = {BANNED_USERS}
     /\ (ret.op = "none" /\ ret'.op = "unban") =>
          \A i \in 1..Len(ret'.arg.ids) :
            LET u == ret'.arg.ids[i]
            IN InGroup(u, BANNED_USERS) =>
                 SystemGroupsOf(store', u) =
                   {"registered-users",
                    IF ret'.userData[i].emailConfirmed = 1
                    THEN "verified-users" ELSE "unverified-users"}]_vars

\* An administrator and a global moderator, both banned and unbanned again.
C13_Witness ==
  /\ ret.op = "unban"
  /\ \A u \in Uids :
       /\ store.bansTimestamp[u] # << >>
       /\ \E i \in 1..Len(ret.arg.ids) : ret.arg.ids[i] = u
       /\ u \in InitStore.members["administrators"] \cup InitStore.members["Global Moderators"]
       /\ SystemGroupsOf(store, u) \subseteq
            {"registered-users", "verified-users", "unverified-users"}
       /\ InGroup(u, "registered-users")

\* C14: getReason of an id <= 0 is the empty string and reads nothing from
\* the store; getReason of a user whose ban history is empty is the empty
\* string.
C14_GetReasonEmpty ==
  ret.op = "getReason" =>
    /\ ret.uid <= 0 => (ret.value = "" /\ ret.reads = 0)
    /\ (ret.uid > 0 /\ store.bansTimestamp[ret.uid] = << >>) => ret.value = ""

\* getReason(-1), asked while user 1 is banned for a reason.
C14_Witness ==
  /\ ret.op = "getReason"
  /\ ret.uid = -1
  /\ ret.value = ""
  /\ ret.reads = 0
  /\ getReason(store, 1) # ""

\* getReason of a user never banned, asked while another user is banned for
\* a reason.
C14_WitnessNoHistory ==
  /\ ret.op = "getReason"
  /\ ret.uid > 0
  /\ store.bansTimestamp[ret.uid] = << >>
  /\ ret.value = ""
  /\ \E v \in Uids : getReason(store, v) # ""

\* The most recent ban record of u: the one under the history key of the
\* highest creation time.
LatestRecord(st, u) == st.objects[SortedSetRevRange00(st.bansTimestamp[u])[1]]

\* C15: after any sequence of completed ban and unban calls run one at a
\* time, for every user: the user is in the expiring-ban set iff the expiry
\* field is nonzero, a nonzero expiry field implies the banned group, and
\* while the user is banned the expiry field is the expire of the user's most
\* recent ban record.
C15_ExpirySetMatchesField ==
  \A u \in Uids :
    /\ u \in DOMAIN store.usersBannedExpire <=> store.bannedExpire[u] # 0
    /\ u \in DOMAIN store.usersBannedExpire =>
         store.usersBannedExpire[u] = store.bannedExpire[u]
    /\ store.bannedExpire[u] # 0 => InGroup(u, BANNED_USERS)
    /\ InGroup(u, BANNED_USERS) =>
         /\ store.bansTimestamp[u] # << >>
         /\ store.bannedExpire[u] = LatestRecord(store, u).expire

\* A user under a time-bounded ban beside a user whose time-bounded ban was
\* lifted.
C15_Witness ==
  \E u, v \in Uids :
    /\ InGroup(u, BANNED_USERS)
    /\ store.bannedExpire[u] # 0
    /\ u \in DOMAIN store.usersBannedExpire
    /\ ~InGroup(v, BANNED_USERS)
    /\ store.bansTimestamp[v] # << >>
    /\ LatestRecord(store, v).expire # 0
    /\ store.bannedExpire[v] = 0
    /\ v \notin DOMAIN store.usersBannedExpire

\* C16: no step removes a key from a user's ban history or deletes a ban
\* record; after a completed ban getReason of that user is the reason given
\* to that ban, the empty string when none was given; and unban leaves what
\* getReason returns unchanged.
C16_HistoryAppendOnly ==
  [][/\ \A u \in Uids :
          DOMAIN store.bansTimestamp[u] \subseteq DOMAIN store'.bansTimestamp[u]
     /\ DOMAIN store.objects \subseteq DOMAIN store'.objects
     /\ (ret.op = "none" /\ ret'.op = "ban" /\ ret'.status = "fulfilled") =>
          getReason(store', ret'.uid) = ret'.reason
     /\ (ret.op = "none" /\ ret'.op = "unban") =>
          \A u \in Uids : getReason(store', u) = getReason(store, u)]_vars

\* C17: a ban writes its record under a key no record had before, and no step
\* changes a field of a record already written.
C17_BanRecordImmutable ==
  [][/\ \A k \in DOMAIN store.objects :
          k \in DOMAIN store'.objects /\ store'.objects[k] = store.objects[k]
     /\ (ret.op = "none" /\ ret'.op = "ban" /\ ret'.status = "fulfilled") =>
          BanKey(ret'.uid, ret'.at) \notin DOMAIN store.objects]_vars

\* C20: the until field of the notification of a ban is a formatted date
\* exactly when the expire of the record stored by the ban is nonzero, and
\* false exactly when it is 0.
C20_EmailAgreesWithRecord ==
  (BanReturned /\ ret.email # NoEmail) =>
    (ret.email.until.date <=> store.objects[BanKey(ret.uid, ret.at)].expire # 0)

ReadOps == {"isBanned", "unbanIfExpired", "filterBanned", "canLoginIfBanned", "getReason"}

ReasonRace(t, b) ==
  /\ tasks[t].op = "getReason" /\ Fulfilled(t)
  /\ b # 1 /\ tasks[b].op = "ban"
  /\ tasks[1].op = "ban" /\ Fulfilled(1)
  /\ tasks[b].L.uid = tasks[1].L.uid
  /\ tasks[t].uids = <<tasks[1].L.uid>>
  /\ tasks[t].overlap /\ tasks[b].overlap

\* C19 as claimed: getReason(u) run beside a ban(u, _, r2) that follows a
\* completed ban of u with reason r1 returns r1 or r2.
C19_ReasonOfOneOfTheBans ==
  \A t, b \in DOMAIN tasks :
    ReasonRace(t, b) => tasks[t].value \in {tasks[1].L.reason, tasks[b].L.reason}

\* C19 as amended: it returns r1 or r2, or the empty string when it read the
\* new ban's key from the history and then found no record under it, the
\* record not being written yet.
C19_ReasonOfOneOfTheBansOrEmpty ==
  \A t, b \in DOMAIN tasks :
    ReasonRace(t, b) =>
      \/ tasks[t].value \in {tasks[1].L.reason, tasks[b].L.reason}
      \/ /\ tasks[t].value = ""
         /\ tasks[t].keys = <<tasks[b].L.banKey>>
         /\ ~tasks[t].banObj.found

\* getReason returned the empty string beside the second of two bans that
\* both have a reason; the second ban has completed since.
C19_Witness ==
  \E t, b \in DOMAIN tasks :
    /\ ReasonRace(t, b)
    /\ tasks[1].L.reason # "" /\ tasks[b].L.reason # ""
    /\ tasks[t].value = ""
    /\ Fulfilled(b)
    /\ getReason(store, tasks[1].L.uid) = tasks[b].L.reason

Spec == Init /\ [][Next]_vars

SpecConc == Init /\ [][NextConc]_vars

SpecReason == InitAfterBan /\ [][NextReason]_vars

====
